---- MODULE Spec2Model ----
(***************************************************************************)
(* Flash map: the partitioned, bounds-checked layer over a flash device    *)
(* (subsys/storage/flash_map/flash_map.c).                                 *)
(*                                                                         *)
(* The state is the backing devices (readiness, cells), the set of handles *)
(* handed out by flash_area_open, and a record of the last API call with   *)
(* the device calls it made.  Each API function is an operator that maps   *)
(* its arguments and the device state to its result; each action applies   *)
(* one of them.                                                            *)
(***************************************************************************)
EXTENDS Integers, Naturals, Sequences, FiniteSets, TLC

VARIABLES flash_ready, drv_rc, mem, opened, closed, last, wr

vars == <<flash_ready, drv_rc, mem, opened, closed, last, wr>>

(***************************************************************************)
(* Bounds of the model.                                                    *)
(***************************************************************************)
\* width in bits of off_t (signed) and size_t (unsigned)
WordBits == 4
\* largest small relative offset tried (besides the extremes of off_t)
MaxOff == 1
\* largest small length tried (besides the extreme of size_t)
MaxLen == 2
\* largest area id tried by flash_area_open
MaxId == 5

RECURSIVE Pow2(_)
Pow2(n) == IF n = 0 THEN 1 ELSE 2 * Pow2(n - 1)

OFF_MAX  == Pow2(WordBits - 1) - 1
OFF_MIN  == 0 - Pow2(WordBits - 1)
SIZE_MAX == Pow2(WordBits) - 1

\* off + len as C evaluates it when off_t is converted to size_t
WrapSum(off, len) == (off + len) % Pow2(WordBits)

\* arguments tried by read, write and erase: the small values around the
\* areas' sizes, a negative offset and the extremes of the two types
Offs  == (-1 .. MaxOff) \cup {OFF_MIN, OFF_MAX}
Lens  == (0 .. MaxLen) \cup {SIZE_MAX}
\* arguments tried while handles are opened and closed and readiness changes
ProbeOffs == {0}
ProbeLens == {1, SIZE_MAX}
Ids   == 0 .. MaxId
Bytes == {0, 1}
UserData == {"ctx_a", "ctx_b"}

(***************************************************************************)
(* Error codes.                                                            *)
(***************************************************************************)
EACCES == 13
ENOENT == 2
ENODEV == 19
EINVAL == 22

(***************************************************************************)
(* The backing devices (external collaborator).                            *)
(***************************************************************************)
Devs == {"d0", "d1"}
NULL_DEV == "null"

flash_capacity == [d \in Devs |-> IF d = "d0" THEN 3 ELSE 1]

\* the parameters of each device
DevParams ==
    [d \in Devs |-> IF d = "d0"
                    THEN [write_block_size |-> 1, erase_value |-> 1]
                    ELSE [write_block_size |-> 2, erase_value |-> 0]]

flash_get_write_block_size(dev) == DevParams[dev].write_block_size

flash_get_parameters(dev) == DevParams[dev]

\* device_is_ready: false for a NULL device, else the device's state
device_is_ready(dev, ready) == IF dev = NULL_DEV THEN FALSE ELSE ready[dev]

\* results a healthy or failing driver can report for an accepted request:
\* success, or an I/O error (-EIO)
HwResults == {0, 0 - 5}

InDevice(dev, addr, len) == addr >= 0 /\ addr + len <= flash_capacity[dev]

\* flash_read: the cells [addr, addr + len), or the driver's error
flash_read(dev, addr, len, m, hw) ==
    IF ~InDevice(dev, addr, len) THEN [rc |-> 0 - EINVAL, data |-> <<>>, mem |-> m]
    ELSE IF hw # 0 THEN [rc |-> hw, data |-> <<>>, mem |-> m]
    ELSE [rc |-> 0, data |-> [i \in 1..len |-> m[dev][addr + i - 1]], mem |-> m]

\* flash_write: stores src at [addr, addr + len); the driver rejects a
\* request that is not a multiple of its write block
flash_write(dev, addr, src, len, m, hw) ==
    IF ~InDevice(dev, addr, len) THEN [rc |-> 0 - EINVAL, data |-> <<>>, mem |-> m]
    ELSE IF addr % flash_get_write_block_size(dev) # 0
            \/ len % flash_get_write_block_size(dev) # 0
         THEN [rc |-> 0 - EINVAL, data |-> <<>>, mem |-> m]
    ELSE IF hw # 0 THEN [rc |-> hw, data |-> <<>>, mem |-> m]
    ELSE [rc |-> 0, data |-> <<>>,
          mem |-> [m EXCEPT ![dev] =
                     [a \in DOMAIN m[dev] |->
                        IF a >= addr /\ a < addr + len
                        THEN src[a - addr + 1] ELSE m[dev][a]]]]

\* flash_erase: sets [addr, addr + len) to the erase value
flash_erase(dev, addr, len, m, hw) ==
    IF ~InDevice(dev, addr, len) THEN [rc |-> 0 - EINVAL, data |-> <<>>, mem |-> m]
    ELSE IF hw # 0 THEN [rc |-> hw, data |-> <<>>, mem |-> m]
    ELSE [rc |-> 0, data |-> <<>>,
          mem |-> [m EXCEPT ![dev] =
                     [a \in DOMAIN m[dev] |->
                        IF a >= addr /\ a < addr + len
                        THEN flash_get_parameters(dev).erase_value
                        ELSE m[dev][a]]]]

(***************************************************************************)
(* The area table (build-time configuration).                              *)
(***************************************************************************)
flash_map ==
    << [fa_id |-> 3, fa_dev |-> "d0", fa_off |-> 1, fa_size |-> 2],
       [fa_id |-> 1, fa_dev |-> "d0", fa_off |-> 0, fa_size |-> 1],
       [fa_id |-> 4, fa_dev |-> "d1", fa_off |-> 0, fa_size |-> 1] >>

flash_map_entries == Len(flash_map)

\* flash_map points at the build-time table
flash_map_is_NULL == FALSE

\* a pointer to a descriptor is its index in flash_map; 0 is NULL
NULL_AREA == 0
Areas == 1 .. flash_map_entries

\* get_flash_area_from_id: first entry of the table with that id, else NULL
RECURSIVE get_flash_area_from(_, _)
get_flash_area_from(i, id) ==
    IF i > flash_map_entries THEN NULL_AREA
    ELSE IF flash_map[i].fa_id = id THEN i
    ELSE get_flash_area_from(i + 1, id)

get_flash_area_from_id(id) == get_flash_area_from(1, id)

\* is_in_flash_area_bounds: off >= 0 and off + len <= fa_size, the sum
\* taken without overflow
is_in_flash_area_bounds(fa, off, len) ==
    off >= 0 /\ off + len <= flash_map[fa].fa_size

(***************************************************************************)
(* The API.  Each operator returns the call's result: rc, the output, the  *)
(* device calls made (with the device's own result) and the cells after.   *)
(***************************************************************************)
DevCall(op, dev, addr, len, rc) ==
    [op |-> op, dev |-> dev, addr |-> addr, len |-> len, rc |-> rc]

\* flash_area_foreach: the callback invocations, in order
RECURSIVE foreach_from(_, _)
foreach_from(i, user_data) ==
    IF i < flash_map_entries
    THEN <<[fa |-> i + 1, user_data |-> user_data]>> \o foreach_from(i + 1, user_data)
    ELSE <<>>

\* the loop started at the second entry
flash_area_foreach_skip(user_data) == foreach_from(1, user_data)

flash_area_foreach(user_data) == foreach_from(0, user_data)

\* flash_area_open with the two error codes exchanged
flash_area_open_swapped(id, ready) ==
    IF flash_map_is_NULL THEN [rc |-> 0 - EACCES, fap |-> NULL_AREA]
    ELSE LET area == get_flash_area_from_id(id) IN
         IF area = NULL_AREA THEN [rc |-> 0 - ENODEV, fap |-> NULL_AREA]
         ELSE IF flash_map[area].fa_dev = NULL_DEV
                 \/ ~device_is_ready(flash_map[area].fa_dev, ready)
              THEN [rc |-> 0 - ENOENT, fap |-> NULL_AREA]
              ELSE [rc |-> 0, fap |-> area]

\* flash_area_open without the readiness check
flash_area_open_noready(id, ready) ==
    IF flash_map_is_NULL THEN [rc |-> 0 - EACCES, fap |-> NULL_AREA]
    ELSE LET area == get_flash_area_from_id(id) IN
         IF area = NULL_AREA THEN [rc |-> 0 - ENOENT, fap |-> NULL_AREA]
         ELSE [rc |-> 0, fap |-> area]

\* flash_area_open: rc and the value stored through fap (NULL_AREA: none)
flash_area_open(id, ready) ==
    IF flash_map_is_NULL THEN [rc |-> 0 - EACCES, fap |-> NULL_AREA]
    ELSE LET area == get_flash_area_from_id(id) IN
         IF area = NULL_AREA THEN [rc |-> 0 - ENOENT, fap |-> NULL_AREA]
         ELSE IF flash_map[area].fa_dev = NULL_DEV
                 \/ ~device_is_ready(flash_map[area].fa_dev, ready)
              THEN [rc |-> 0 - ENODEV, fap |-> NULL_AREA]
              ELSE [rc |-> 0, fap |-> area]

\* flash_area_close that invalidates the handle
flash_area_close_drop(fa, handles) == handles \ {fa}

\* flash_area_close: nothing to do; the handles stay as they are
flash_area_close(fa, handles) == handles

\* flash_area_read without the bounds check
flash_area_read_nocheck(fa, off, len, m, hw) ==
    LET dev == flash_map[fa].fa_dev
        addr == flash_map[fa].fa_off + off
        r == flash_read(dev, addr, len, m, hw)
    IN [rc |-> r.rc, data |-> r.data,
        calls |-> <<DevCall("read", dev, addr, len, r.rc)>>, mem |-> r.mem]

flash_area_read(fa, off, len, m, hw) ==
    IF ~is_in_flash_area_bounds(fa, off, len)
    THEN [rc |-> 0 - EINVAL, data |-> <<>>, calls |-> <<>>, mem |-> m]
    ELSE LET dev == flash_map[fa].fa_dev
             addr == flash_map[fa].fa_off + off
             r == flash_read(dev, addr, len, m, hw)
         IN [rc |-> r.rc, data |-> r.data,
             calls |-> <<DevCall("read", dev, addr, len, r.rc)>>, mem |-> r.mem]

\* flash_area_write that reports success whatever the driver returned
flash_area_write_rc0(fa, off, src, len, m, hw) ==
    IF ~is_in_flash_area_bounds(fa, off, len)
    THEN [rc |-> 0 - EINVAL, data |-> <<>>, calls |-> <<>>, mem |-> m]
    ELSE LET dev == flash_map[fa].fa_dev
             addr == flash_map[fa].fa_off + off
             r == flash_write(dev, addr, src, len, m, hw)
         IN [rc |-> 0, data |-> <<>>,
             calls |-> <<DevCall("write", dev, addr, len, r.rc)>>, mem |-> r.mem]

\* flash_area_write that passes the relative offset to the driver
flash_area_write_rel(fa, off, src, len, m, hw) ==
    IF ~is_in_flash_area_bounds(fa, off, len)
    THEN [rc |-> 0 - EINVAL, data |-> <<>>, calls |-> <<>>, mem |-> m]
    ELSE LET dev == flash_map[fa].fa_dev
             addr == off
             r == flash_write(dev, addr, src, len, m, hw)
         IN [rc |-> r.rc, data |-> <<>>,
             calls |-> <<DevCall("write", dev, addr, len, r.rc)>>, mem |-> r.mem]

flash_area_write(fa, off, src, len, m, hw) ==
    IF ~is_in_flash_area_bounds(fa, off, len)
    THEN [rc |-> 0 - EINVAL, data |-> <<>>, calls |-> <<>>, mem |-> m]
    ELSE LET dev == flash_map[fa].fa_dev
             addr == flash_map[fa].fa_off + off
             r == flash_write(dev, addr, src, len, m, hw)
         IN [rc |-> r.rc, data |-> <<>>,
             calls |-> <<DevCall("write", dev, addr, len, r.rc)>>, mem |-> r.mem]

\* flash_area_erase whose bounds check adds off and len in size_t
flash_area_erase_wrap(fa, off, len, m, hw) ==
    IF ~(off >= 0 /\ WrapSum(off, len) <= flash_map[fa].fa_size)
    THEN [rc |-> 0 - EINVAL, data |-> <<>>, calls |-> <<>>, mem |-> m]
    ELSE LET dev == flash_map[fa].fa_dev
             addr == flash_map[fa].fa_off + off
             r == flash_erase(dev, addr, len, m, hw)
         IN [rc |-> r.rc, data |-> <<>>,
             calls |-> <<DevCall("erase", dev, addr, len, r.rc)>>, mem |-> r.mem]

flash_area_erase(fa, off, len, m, hw) ==
    IF ~is_in_flash_area_bounds(fa, off, len)
    THEN [rc |-> 0 - EINVAL, data |-> <<>>, calls |-> <<>>, mem |-> m]
    ELSE LET dev == flash_map[fa].fa_dev
             addr == flash_map[fa].fa_off + off
             r == flash_erase(dev, addr, len, m, hw)
         IN [rc |-> r.rc, data |-> <<>>,
             calls |-> <<DevCall("erase", dev, addr, len, r.rc)>>, mem |-> r.mem]

\* flash_area_align that answers from the area instead of the device
flash_area_align_size(fa) == flash_map[fa].fa_size

flash_area_align(fa) == flash_get_write_block_size(flash_map[fa].fa_dev)

\* flash_area_has_driver that returns 0 for a ready device
flash_area_has_driver_zero(fa, ready) ==
    IF ~device_is_ready(flash_map[fa].fa_dev, ready) THEN 0 - ENODEV ELSE 0

flash_area_has_driver(fa, ready) ==
    IF ~device_is_ready(flash_map[fa].fa_dev, ready) THEN 0 - ENODEV ELSE 1

flash_area_get_device(fa) == flash_map[fa].fa_dev

flash_area_erased_val(fa) ==
    LET param == flash_get_parameters(flash_map[fa].fa_dev) IN param.erase_value

(***************************************************************************)
(* State machine.                                                          *)
(*   flash_ready  readiness of each device                                 *)
(*   drv_rc       what the driver reports for a request it accepts: 0, or  *)
(*                the error of a failing device                            *)
(*   mem          cells of each device                                     *)
(*   opened       handles stored through fap by a successful open          *)
(*   closed       handles on which flash_area_close has been called        *)
(*   last         the last call: its arguments, result and device calls    *)
(*   wr           history of the round trip: the last successful write     *)
(*                whose range has seen no other write or erase since       *)
(***************************************************************************)
Call(op, arg, fa, off, len, rc, out, calls) ==
    [op |-> op, arg |-> arg, fa |-> fa, off |-> off, len |-> len,
     rc |-> rc, out |-> out, calls |-> calls]

NoWrite == [valid |-> FALSE, fa |-> NULL_AREA, off |-> 0, len |-> 0, data |-> <<>>]

ErasedMem ==
    [d \in Devs |-> [a \in 0 .. flash_capacity[d] - 1 |->
                        flash_get_parameters(d).erase_value]]

\* the source buffers tried by write: all zeros, all ones and alternating
\* bytes for a short buffer, all zeros for a long one
Buffers(len) ==
    IF len <= MaxLen
    THEN {[i \in 1 .. len |-> b] : b \in Bytes} \cup {[i \in 1 .. len |-> i % 2]}
    ELSE {[i \in 1 .. len |-> 0]}

\* the device range the area layer is meant to address for (fa, off, len)
AbsOff(fa, off) == flash_map[fa].fa_off + off

Overlaps(c, w) ==
    /\ w.valid
    /\ c.dev = flash_map[w.fa].fa_dev
    /\ c.addr < AbsOff(w.fa, w.off) + w.len
    /\ AbsOff(w.fa, w.off) < c.addr + c.len

\* wr after a call that made the device calls `calls`
Disturbed(calls, w) ==
    IF \E i \in 1 .. Len(calls) : Overlaps(calls[i], w) THEN NoWrite ELSE w

\* wr after the call c: a successful write is remembered; every other write
\* or erase forgets the remembered write if the driver was called on its range
Track(w, c) ==
    IF c.op = "write" /\ c.rc = 0
    THEN [valid |-> TRUE, fa |-> c.fa, off |-> c.off, len |-> c.len, data |-> c.out]
    ELSE IF c.op \in {"write", "erase"} THEN Disturbed(c.calls, w)
    ELSE w

Init ==
    /\ flash_ready \in [Devs -> BOOLEAN]
    /\ drv_rc = 0
    /\ mem = ErasedMem
    /\ opened = {}
    /\ closed = {}
    /\ last = Call("init", 0, NULL_AREA, 0, 0, 0, <<>>, <<>>)
    /\ wr = NoWrite

\* the device's init completes, or the device goes away
ReadyChange(d) ==
    /\ flash_ready' = [flash_ready EXCEPT ![d] = ~flash_ready[d]]
    /\ last' = Call("ready_change", d, NULL_AREA, 0, 0, 0, <<>>, <<>>)
    /\ UNCHANGED <<drv_rc, mem, opened, closed, wr>>

Open(id) ==
    LET r == flash_area_open(id, flash_ready) IN
    /\ opened' = IF r.rc = 0 THEN opened \cup {r.fap} ELSE opened
    /\ last' = Call("open", id, r.fap, 0, 0, r.rc, <<>>, <<>>)
    /\ UNCHANGED <<flash_ready, drv_rc, mem, closed, wr>>

Close(fa) ==
    /\ fa \in opened
    /\ opened' = flash_area_close(fa, opened)
    /\ closed' = closed \cup {fa}
    /\ last' = Call("close", 0, fa, 0, 0, 0, <<>>, <<>>)
    /\ UNCHANGED <<flash_ready, drv_rc, mem, wr>>

Read(fa, off, len) ==
    LET r == flash_area_read(fa, off, len, mem, drv_rc) IN
    /\ fa \in opened
    /\ mem' = r.mem
    /\ last' = Call("read", 0, fa, off, len, r.rc, r.data, r.calls)
    /\ UNCHANGED <<flash_ready, drv_rc, opened, closed, wr>>

WriteCall(fa, off, src, len) ==
    LET r == flash_area_write(fa, off, src, len, mem, drv_rc) IN
    /\ fa \in opened
    /\ mem' = r.mem
    /\ last' = Call("write", 0, fa, off, len, r.rc, src, r.calls)
    /\ UNCHANGED <<flash_ready, drv_rc, opened, closed>>

EraseCall(fa, off, len) ==
    LET r == flash_area_erase(fa, off, len, mem, drv_rc) IN
    /\ fa \in opened
    /\ mem' = r.mem
    /\ last' = Call("erase", 0, fa, off, len, r.rc, <<>>, r.calls)
    /\ UNCHANGED <<flash_ready, drv_rc, opened, closed>>

Write(fa, off, src, len) == WriteCall(fa, off, src, len) /\ UNCHANGED wr

Erase(fa, off, len) == EraseCall(fa, off, len) /\ UNCHANGED wr

\* the same calls with the history of the round trip kept
WriteTracked(fa, off, src, len) ==
    WriteCall(fa, off, src, len) /\ wr' = Track(wr, last')

EraseTracked(fa, off, len) ==
    EraseCall(fa, off, len) /\ wr' = Track(wr, last')

Align(fa) ==
    /\ fa \in opened
    /\ last' = Call("align", 0, fa, 0, 0, 0, <<flash_area_align(fa)>>, <<>>)
    /\ UNCHANGED <<flash_ready, drv_rc, mem, opened, closed, wr>>

ErasedVal(fa) ==
    /\ fa \in opened
    /\ last' = Call("erased_val", 0, fa, 0, 0, 0, <<flash_area_erased_val(fa)>>, <<>>)
    /\ UNCHANGED <<flash_ready, drv_rc, mem, opened, closed, wr>>

HasDriver(fa) ==
    /\ fa \in opened
    /\ last' = Call("has_driver", 0, fa, 0, 0, flash_area_has_driver(fa, flash_ready),
                    <<>>, <<>>)
    /\ UNCHANGED <<flash_ready, drv_rc, mem, opened, closed, wr>>

GetDevice(fa) ==
    /\ fa \in opened
    /\ last' = Call("get_device", 0, fa, 0, 0, 0, <<flash_area_get_device(fa)>>, <<>>)
    /\ UNCHANGED <<flash_ready, drv_rc, mem, opened, closed, wr>>

Foreach(user_data) ==
    /\ last' = Call("foreach", user_data, NULL_AREA, 0, 0, 0,
                    flash_area_foreach(user_data), <<>>)
    /\ UNCHANGED <<flash_ready, drv_rc, mem, opened, closed, wr>>

\* the device starts or stops failing
HwChange(r) ==
    /\ r # drv_rc
    /\ drv_rc' = r
    /\ last' = Call("hw_change", r, NULL_AREA, 0, 0, 0, <<>>, <<>>)
    /\ UNCHANGED <<flash_ready, mem, opened, closed, wr>>

\* one call of the access functions with arguments from offs and lens
Access(offs, lens) ==
    \E fa \in Areas, off \in offs, len \in lens :
        \/ Read(fa, off, len)
        \/ \E src \in Buffers(len) : Write(fa, off, src, len)
        \/ Erase(fa, off, len)

AccessTracked(offs, lens) ==
    \E fa \in Areas, off \in offs, len \in lens :
        \/ Read(fa, off, len)
        \/ \E src \in Buffers(len) : WriteTracked(fa, off, src, len)
        \/ EraseTracked(fa, off, len)

Next ==
    \/ \E d \in Devs : ReadyChange(d)
    \/ \E id \in Ids : Open(id)
    \/ \E fa \in Areas : Close(fa)
    \/ Access(ProbeOffs, ProbeLens)
    \/ \E fa \in Areas : Align(fa)
    \/ \E fa \in Areas : ErasedVal(fa)
    \/ \E fa \in Areas : HasDriver(fa)
    \/ \E fa \in Areas : GetDevice(fa)
    \/ \E user_data \in UserData : Foreach(user_data)

Spec == Init /\ [][Next]_vars

(***************************************************************************)
(* The access functions on their own: every area has been opened while its *)
(* device was ready, and read, write and erase are called with every       *)
(* argument of Offs and Lens while the driver works or fails.              *)
(***************************************************************************)
InitAccess ==
    /\ flash_ready = [d \in Devs |-> TRUE]
    /\ drv_rc = 0
    /\ mem = ErasedMem
    /\ opened = Areas
    /\ closed = {}
    /\ last = Call("open", flash_map[flash_map_entries].fa_id, flash_map_entries,
                   0, 0, 0, <<>>, <<>>)
    /\ wr = NoWrite

NextAccess ==
    \/ \E r \in HwResults : HwChange(r)
    \/ Access(Offs, Lens)

SpecAccess == InitAccess /\ [][NextAccess]_vars

(***************************************************************************)
(* The round trip: as SpecAccess, with the arguments that can lie inside   *)
(* an area and the history of the last undisturbed write.                  *)
(***************************************************************************)
NextRoundTrip ==
    \/ \E r \in HwResults : HwChange(r)
    \/ AccessTracked(0 .. MaxOff, 0 .. MaxLen)

SpecRoundTrip == InitAccess /\ [][NextRoundTrip]_vars

(***************************************************************************)
(* Properties.                                                             *)
(***************************************************************************)
IsAccess == last.op \in {"read", "write", "erase"}

Desc(fa) == flash_map[fa]

\* the arguments of the last access lie inside its area
InBounds == last.off >= 0 /\ last.off + last.len <= Desc(last.fa).fa_size

IdPresent(id) == \E i \in Areas : flash_map[i].fa_id = id

AreaOfId(id) == CHOOSE i \in Areas : flash_map[i].fa_id = id

\* C1: an access with rel_offset + length > size returns -EINVAL and makes
\* no device call, and every device call lies on the area's device inside
\* [fa_off, fa_off + fa_size).
C1_NoCallOutsideArea ==
    IsAccess =>
        /\ last.off + last.len > Desc(last.fa).fa_size =>
              last.rc = 0 - EINVAL /\ last.calls = <<>>
        /\ \A i \in 1 .. Len(last.calls) :
              /\ last.calls[i].dev = Desc(last.fa).fa_dev
              /\ last.calls[i].addr >= Desc(last.fa).fa_off
              /\ last.calls[i].addr + last.calls[i].len
                    <= Desc(last.fa).fa_off + Desc(last.fa).fa_size

\* a write that runs one byte past the end of its area was rejected
C1_Witness ==
    /\ last.op = "write"
    /\ last.off = Desc(last.fa).fa_size - 1
    /\ last.len = 2
    /\ last.rc = 0 - EINVAL
    /\ last.calls = <<>>

C3_ForwardedVerbatim ==
    (IsAccess /\ InBounds) =>
        /\ Len(last.calls) = 1
        /\ last.calls[1].op = last.op
        /\ last.calls[1].dev = Desc(last.fa).fa_dev
        /\ last.calls[1].addr = Desc(last.fa).fa_off + last.off
        /\ last.calls[1].len = last.len
        /\ last.rc = last.calls[1].rc

\* a write at the last bytes of an area at a nonzero offset came back with
\* the driver's error
C3_Witness ==
    /\ last.op = "write"
    /\ Desc(last.fa).fa_off > 0
    /\ last.off > 0
    /\ last.off + last.len = Desc(last.fa).fa_size
    /\ last.calls # <<>>
    /\ last.rc < 0
    /\ last.rc # 0 - EINVAL

\* C4: open of an absent id returns -ENOENT, of a present id on a device
\* that is not ready -ENODEV, and of a present id on a ready device 0 with
\* the descriptor of that id as the handle.
C4_OpenResult ==
    last.op = "open" =>
        IF ~IdPresent(last.arg)
        THEN last.rc = 0 - ENOENT
        ELSE IF ~flash_ready[Desc(AreaOfId(last.arg)).fa_dev]
             THEN last.rc = 0 - ENODEV
             ELSE /\ last.rc = 0
                  /\ last.fa = AreaOfId(last.arg)
                  /\ Desc(last.fa).fa_id = last.arg
                  /\ last.fa \in opened

\* an open succeeded on an id that is not its descriptor's place in the table
C4_Witness ==
    /\ last.op = "open"
    /\ last.rc = 0
    /\ last.fa # last.arg
    /\ Desc(last.fa).fa_id = last.arg

\* C5: open follows the device's readiness at the time of the call, a
\* handle once obtained is kept, and read, write and erase on it go to the
\* bounds check and the device whether or not the device is ready.
C5_State ==
    /\ (last.op = "open" /\ IdPresent(last.arg)) =>
          IF flash_ready[Desc(AreaOfId(last.arg)).fa_dev]
          THEN last.rc = 0 /\ last.fa \in opened
          ELSE last.rc = 0 - ENODEV
    /\ IsAccess =>
          /\ last.fa \in opened
          /\ last.rc # 0 - ENODEV
          /\ InBounds <=> Len(last.calls) = 1

C5_ReadinessOnlyAtOpen == [][opened \subseteq opened' /\ C5_State']_vars

\* an access through a handle reached the device and succeeded while the
\* device was not ready
C5_Witness ==
    /\ IsAccess
    /\ ~flash_ready[Desc(last.fa).fa_dev]
    /\ Len(last.calls) = 1
    /\ last.rc = 0

\* C6: has_driver returns -ENODEV when the device is not ready at the call
\* and a positive value when it is.
C6_HasDriverCurrent ==
    last.op = "has_driver" =>
        IF flash_ready[Desc(last.fa).fa_dev]
        THEN last.rc > 0
        ELSE last.rc = 0 - ENODEV

\* has_driver on an opened handle found the device not ready
C6_Witness ==
    /\ last.op = "has_driver"
    /\ last.fa \in opened
    /\ last.rc = 0 - ENODEV

\* C7: foreach calls the callback once per descriptor, in table order, with
\* the caller's context.
C7_ForeachVisitsAll ==
    last.op = "foreach" =>
        last.out = [i \in 1 .. flash_map_entries |->
                       [fa |-> i, user_data |-> last.arg]]

\* foreach ran after handles were opened and closed and cells were written
C7_Witness ==
    /\ last.op = "foreach"
    /\ Len(last.out) = flash_map_entries
    /\ closed # {}
    /\ opened # closed
    /\ mem # ErasedMem

\* C8: a successful read of the range of a successful write that no write
\* or erase has touched since returns the written bytes, and a successful
\* write changes no cell outside [fa_off + rel_offset, fa_off + rel_offset
\* + length) of its device.
C8_ReadBack ==
    (/\ last.op = "read"
     /\ last.rc = 0
     /\ wr.valid
     /\ last.fa = wr.fa
     /\ last.off = wr.off
     /\ last.len = wr.len) => last.out = wr.data

C8_WriteFrame ==
    (last'.op = "write" /\ last'.rc = 0) =>
        \A d \in Devs : \A a \in DOMAIN mem[d] :
            IF /\ d = Desc(last'.fa).fa_dev
               /\ a >= AbsOff(last'.fa, last'.off)
               /\ a < AbsOff(last'.fa, last'.off) + last'.len
            THEN mem'[d][a] = last'.out[a - AbsOff(last'.fa, last'.off) + 1]
            ELSE mem'[d][a] = mem[d][a]

C8_RoundTrip == [][C8_ReadBack' /\ C8_WriteFrame]_vars

\* two bytes that differ from the erased state were written to an area at
\* a nonzero offset and read back
C8_Witness ==
    /\ last.op = "read"
    /\ last.rc = 0
    /\ wr.valid
    /\ last.fa = wr.fa /\ last.off = wr.off /\ last.len = wr.len
    /\ Desc(last.fa).fa_off > 0
    /\ last.len = 2
    /\ last.out = wr.data
    /\ \E i \in 1 .. 2 : last.out[i] # DevParams[Desc(last.fa).fa_dev].erase_value

\* C9: close makes no device call and changes neither the devices nor the
\* handles, so a closed handle stays a handle.
C9_CloseStep ==
    last'.op = "close" =>
        /\ last'.calls = <<>>
        /\ mem' = mem
        /\ flash_ready' = flash_ready
        /\ drv_rc' = drv_rc
        /\ opened' = opened
        /\ closed' \subseteq opened'

C9_CloseIsNoOp == [][C9_CloseStep]_vars

\* an access through a closed handle reached the device and succeeded
C9_Witness ==
    /\ IsAccess
    /\ last.fa \in closed
    /\ Len(last.calls) = 1
    /\ last.rc = 0

\* C10: align and erased_val return the write-block size and the erase
\* value of the handle's device, the same for every area of that device,
\* without a device call.
C10_DeviceParameters ==
    /\ last.op = "align" =>
          /\ last.out = <<DevParams[Desc(last.fa).fa_dev].write_block_size>>
          /\ last.calls = <<>>
          /\ last.rc = 0
          /\ \A fb \in Areas : Desc(fb).fa_dev = Desc(last.fa).fa_dev =>
                 flash_area_align(fb) = last.out[1]
    /\ last.op = "erased_val" =>
          /\ last.out = <<DevParams[Desc(last.fa).fa_dev].erase_value>>
          /\ last.calls = <<>>
          /\ last.rc = 0
          /\ \A fb \in Areas : Desc(fb).fa_dev = Desc(last.fa).fa_dev =>
                 flash_area_erased_val(fb) = last.out[1]

\* align was asked of a handle whose device carries another opened area of
\* a different offset and size
C10_Witness ==
    /\ last.op = "align"
    /\ \E fb \in opened :
          /\ fb # last.fa
          /\ Desc(fb).fa_dev = Desc(last.fa).fa_dev
          /\ Desc(fb).fa_off # Desc(last.fa).fa_off
          /\ Desc(fb).fa_size # Desc(last.fa).fa_size

====
